---- MODULE Spec2Model ----
(***************************************************************************)
(* Inventory and meal serving of the kindergarten kitchen backend          *)
(* (kinderkarden_inventory/backend/app).                                   *)
(*                                                                         *)
(* The committed database is the tables products, meals, meal_ingredients, *)
(* meal_servings and inventory_logs.  Every HTTP request runs in a session *)
(* of its own (database.get_db): rows a handler loads or adds live in the  *)
(* session until `await db.commit()` writes them, and a handler that       *)
(* raises leaves its session to be closed, which discards them.  The       *)
(* session factory has autoflush=False, so nothing reaches the database    *)
(* before an explicit flush or commit.  Handlers are coroutines: every     *)
(* `await` on the database or on redis is a point where another request    *)
(* may run, so one action below is the code between two such points.       *)
(* The database runs at its default isolation (READ COMMITTED): a SELECT   *)
(* sees what is committed when it runs, and the UPDATE the unit of work    *)
(* emits at commit for a modified row sets the changed columns to the      *)
(* values held in the session.                                             *)
(*                                                                         *)
(* Quantities are the Float columns of the source, modelled as integers    *)
(* (grams).                                                                *)
(***************************************************************************)
EXTENDS Integers, Sequences, FiniteSets, TLC

VARIABLES
    products,          \* table products: id -> [name, quantity, threshold, delivery_date]
    product_seq,       \* last value of the products.id sequence
    meals,             \* table meals: id -> [name]
    meal_seq,          \* last value of the meals.id sequence
    meal_ingredients,  \* table meal_ingredients: rows [meal_id, product_id, quantity] in insertion order
    meal_servings,     \* table meal_servings: rows [meal_id, user_id, timestamp], id = position
    inventory_logs,    \* table inventory_logs: rows [product_id, change_type, quantity, timestamp, user_id], id = position
    published,         \* messages published on the redis channel "inventory_updates"
    now,               \* the clock read by datetime.utcnow()
    pc,                \* per request slot: where its handler stands
    req,               \* per request slot: the request being handled
    session,           \* per request slot: the state of its AsyncSession
    response,          \* the response sent by the step just taken, if it sent one
    quota,             \* number of requests the run may still receive
    recording,         \* whether the run keeps the history of its requests
    history,           \* the completed requests of a recorded run, in order of completion
    catalog0,          \* the catalog the run started from
    jobs               \* the celery result backend: task id -> [name, state, result]

db == <<products, meals, meal_ingredients, meal_servings, inventory_logs>>
vars == <<products, product_seq, meals, meal_seq, meal_ingredients, meal_servings,
          inventory_logs, published, now, pc, req, session, response, quota,
          recording, history, catalog0, jobs>>

-----------------------------------------------------------------------------
(* Bounds of the model. *)

\* Requests received in one run.
MaxCalls == 2
\* Largest value of the clock.
MaxTime == 1

\* Concurrent request slots (each request has a session of its own).
Sessions == {"r1", "r2"}

-----------------------------------------------------------------------------
(* Arithmetic helpers. *)

RECURSIVE SumSeq(_)
SumSeq(s) == IF s = <<>> THEN 0 ELSE Head(s) + SumSeq(Tail(s))

Abs(x) == IF x < 0 THEN -x ELSE x

-----------------------------------------------------------------------------
(* The users table (models.User).  Registration and login are outside the  *)
(* model; user 1 is the administrator the fixtures create first.           *)

users == <<"admin", "cook", "manager">>

NoDate == -1      \* None in a DateTime column or an Optional[datetime] field
NoRow == [none |-> TRUE]

-----------------------------------------------------------------------------
(* Request bodies (schemas.py) and the requests a run draws from. *)

ProductBody(n, q, t) ==
    [name |-> n, quantity |-> q, threshold |-> t, delivery_date |-> NoDate]

\* A body in which the client gives a delivery_date of its own.
DatedBody(n, q, t) == [ProductBody(n, q, t) EXCEPT !.delivery_date = 7]

\* schemas.ProductSchema, the response model of the product endpoints:
\* delivery_date is a datetime, so a row holding None fails its validation.
ProductSchema(row) == row.delivery_date # NoDate

\* schemas.ProductCreate: quantity and threshold carry Field(ge=0).
ProductCreate_unchecked(body) == TRUE
ProductCreate(body) == body.quantity >= 0 /\ body.threshold >= 0

Ingredient(m, pid, q) == [meal_id |-> m, product_id |-> pid, quantity |-> q]

MealBody(n, ingredients) == [name |-> n, ingredients |-> ingredients]

\* schemas.MealCreate: every ingredient's quantity carries Field(ge=0).
MealCreate(body) == \A k \in DOMAIN body.ingredients : body.ingredients[k].quantity >= 0

NoBody == [none |-> TRUE]
NoReq == [op |-> "none", user |-> 0, id |-> 0, body |-> NoBody, began |-> 0]
NoResponse == [session |-> "none", request |-> NoReq, status |-> 0, detail |-> <<>>]

Call(op, u, id, body) == [op |-> op, user |-> u, id |-> id, body |-> body, began |-> 0]

\* Users 1 (admin) and 2 (cook) send the requests, and user 3 (manager) one
\* request per product endpoint; a request that the role check refuses is
\* drawn once per endpoint, its arguments playing no part.
CreateProductCalls ==
    {Call("create_product", 1, 0, b) :
        b \in {ProductBody("Milk", 50, 10), ProductBody("Flour", 50, 10),
               ProductBody("Flour", 0, 10), DatedBody("Flour", 50, 10),
               ProductBody("Flour", -50, 10), ProductBody("Flour", 50, -10)}}
    \cup {Call("create_product", 2, 0, ProductBody("Flour", 50, 10)),
          Call("create_product", 3, 0, ProductBody("Flour", 50, 10))}

UpdateProductCalls ==
    {Call("update_product", 1, 1, b) :
        b \in {DatedBody("Milk", 0, 10), DatedBody("Milk", 50, 10),
               DatedBody("Milk", 100, 10), DatedBody("Flour", 50, 10),
               ProductBody("Milk", 0, 10),
               ProductBody("Milk", -50, 10), ProductBody("Milk", 50, -10)}}
    \cup {Call("update_product", 1, 3, ProductBody("Milk", 50, 10)),
          Call("update_product", 2, 1, ProductBody("Milk", 50, 10)),
          Call("update_product", 3, 1, DatedBody("Milk", 50, 10))}

DeleteProductCalls ==
    {Call("delete_product", 1, 1, NoBody), Call("delete_product", 1, 3, NoBody),
     Call("delete_product", 2, 1, NoBody), Call("delete_product", 3, 1, NoBody)}

\* GET /products/{id} has no role check.
ReadProductCalls ==
    {Call("read_product", 2, id, NoBody) : id \in 1..3}

\* GET /portion-estimates.
PortionEstimateCalls ==
    {Call("portion_estimates", 1, 0, NoBody), Call("portion_estimates", 2, 0, NoBody)}

CreateMealCalls ==
    {Call("create_meal", 1, 0, b) :
        b \in {MealBody("Lunch", <<>>),
               MealBody("Lunch", <<Ingredient(1, 1, 50)>>),
               MealBody("Lunch", <<Ingredient(1, 1, 50), Ingredient(1, 2, 0)>>),
               MealBody("Lunch", <<Ingredient(1, 1, 50), Ingredient(1, 3, 50)>>),
               MealBody("Lunch", <<Ingredient(1, 1, 50), Ingredient(1, 1, 100)>>),
               MealBody("Lunch", <<Ingredient(1, 1, -50)>>),
               MealBody("Breakfast", <<Ingredient(1, 1, 50)>>)}}
    \cup {Call("create_meal", 2, 0, MealBody("Lunch", <<>>))}

UpdateMealCalls ==
    {Call("update_meal", 1, 1, MealBody("Breakfast", <<Ingredient(1, 1, 100)>>)),
     Call("update_meal", 1, 3, MealBody("Breakfast", <<Ingredient(1, 1, 100)>>)),
     Call("update_meal", 1, 1, MealBody("Breakfast", <<Ingredient(1, 1, -50)>>)),
     Call("update_meal", 1, 1, MealBody("Breakfast", <<Ingredient(1, 3, 50)>>)),
     Call("update_meal", 2, 1, MealBody("Breakfast", <<Ingredient(1, 1, 100)>>))}

DeleteMealCalls ==
    {Call("delete_meal", 1, 1, NoBody), Call("delete_meal", 1, 3, NoBody),
     Call("delete_meal", 2, 1, NoBody)}

ServeMealCalls ==
    {Call("serve_meal", 1, 1, NoBody), Call("serve_meal", 2, 1, NoBody),
     Call("serve_meal", 2, 2, NoBody), Call("serve_meal", 2, 3, NoBody),
     Call("serve_meal", 3, 1, NoBody)}

\* The session of a request that has not loaded or added anything.
NewSession ==
    [ingredients |-> <<>>,   \* rows loaded by serve_meal / built by create_meal
     i           |-> 0,      \* position of the loop over them
     loaded      |-> <<>>,   \* product rows loaded and modified: id -> quantity held
     row         |-> NoRow,  \* the row loaded by update_product / delete_product, or the
                             \* flushed, uncommitted row of create_product
     id          |-> 0,      \* its id
     logs        |-> <<>>,   \* InventoryLog rows added and not yet committed
     meals       |-> <<>>,   \* meal rows loaded by get_portion_estimates: [id, name]
     m           |-> 0,      \* position of its loop over them
     portions    |-> 0,      \* `portions` of the meal it is at
     estimates   |-> <<>>]   \* `estimates` built so far

-----------------------------------------------------------------------------
(* Catalogs a run may start from: the empty database, and databases that   *)
(* create_product and create_meal have filled at time 0.                   *)

DeliveryLog(pid, q, t) ==
    [product_id |-> pid, change_type |-> "delivery", quantity |-> q,
     timestamp |-> t, user_id |-> 1]

ProductRow(n, q, t) == [name |-> n, quantity |-> q, threshold |-> 10, delivery_date |-> t]

EmptyCatalog ==
    [products |-> <<>>, meals |-> <<>>, meal_ingredients |-> <<>>, inventory_logs |-> <<>>]

\* One product "Milk" with stock q1 and one meal needing a1 of it per serving.
OneIngredientCatalog(q1, a1) ==
    [products |-> <<ProductRow("Milk", q1, 0)>>,
     meals |-> <<[name |-> "Breakfast"]>>,
     meal_ingredients |-> <<Ingredient(1, 1, a1)>>,
     inventory_logs |-> <<DeliveryLog(1, q1, 0)>>]

\* Two products and one meal needing a1 of the first and a2 of the second.
TwoIngredientCatalog(q1, q2, a1, a2) ==
    [products |-> <<ProductRow("Milk", q1, 0), ProductRow("Flour", q2, 0)>>,
     meals |-> <<[name |-> "Breakfast"]>>,
     meal_ingredients |-> <<Ingredient(1, 1, a1), Ingredient(1, 2, a2)>>,
     inventory_logs |-> <<DeliveryLog(1, q1, 0), DeliveryLog(2, q2, 0)>>]

\* The catalog tests/conftest.py sets up: Milk 100, Breakfast needing 50 of it.
Fixture == OneIngredientCatalog(100, 50)

Catalogs ==
    {EmptyCatalog, Fixture, OneIngredientCatalog(50, 50),
     TwoIngredientCatalog(100, 0, 50, 50), TwoIngredientCatalog(50, 50, 50, 50)}

InitFrom(catalog) ==
    /\ catalog0 = catalog
    /\ products = catalog.products
    /\ product_seq = Len(catalog.products)
    /\ meals = catalog.meals
    /\ meal_seq = Len(catalog.meals)
    /\ meal_ingredients = catalog.meal_ingredients
    /\ meal_servings = <<>>
    /\ inventory_logs = catalog.inventory_logs
    /\ published = <<>>
    /\ now = 0
    /\ pc = [p \in Sessions |-> "idle"]
    /\ req = [p \in Sessions |-> NoReq]
    /\ session = [p \in Sessions |-> NewSession]
    /\ response = NoResponse
    /\ history = <<>>
    /\ jobs = <<>>

Init ==
    /\ \E catalog \in Catalogs : InitFrom(catalog)
    /\ quota = MaxCalls
    /\ recording = FALSE

-----------------------------------------------------------------------------
(* Receiving a request and answering it. *)

seqs == <<product_seq, meal_seq>>
run == <<now, recording, catalog0, jobs>>

\* A request reaches its handler: FastAPI has authenticated the user.
Receive(p) ==
    /\ pc[p] = "idle"
    /\ quota > 0
    /\ quota' = quota - 1

Began(c) == [c EXCEPT !.began = Len(history)]

\* The handler returns or raises: the response goes out and get_db closes the
\* session, which drops whatever it holds uncommitted.
Respond(p, r, status, detail) ==
    /\ pc' = [pc EXCEPT ![p] = "idle"]
    /\ session' = [session EXCEPT ![p] = NewSession]
    /\ req' = [req EXCEPT ![p] = NoReq]
    /\ response' = [session |-> p, request |-> r, status |-> status, detail |-> detail]
    /\ history' = IF recording
                    THEN Append(history, [session |-> p, request |-> r, status |-> status])
                    ELSE history

\* The handler goes on to its next await with session state s.
Continue(p, r, label, s) ==
    /\ pc' = [pc EXCEPT ![p] = label]
    /\ session' = [session EXCEPT ![p] = s]
    /\ req' = [req EXCEPT ![p] = r]
    /\ response' = NoResponse
    /\ UNCHANGED history

\* HTTPException(403) of the role checks in main.py.
NotAuthorized == <<"Not authorized">>
\* Pydantic rejects the body before the handler runs.
Unprocessable == <<"validation error">>
\* An exception no handler catches.
ServerError == <<"Internal Server Error">>

\* Names of rows other requests have INSERTed (flushed) and not yet committed:
\* an INSERT or UPDATE of the same unique name waits for that transaction.
PendingNames(p) ==
    {session[q].row.name : q \in {x \in Sessions \ {p} : pc[x] = "create_product_commit"}}

CommittedNames == {products[k].name : k \in DOMAIN products}

-----------------------------------------------------------------------------
(* Products: crud.create_product, update_product, delete_product. *)

\* Product(name=..., quantity=..., threshold=..., delivery_date=datetime.utcnow())
Product_dated_by_client(body, t) ==
    [name |-> body.name, quantity |-> body.quantity, threshold |-> body.threshold,
     delivery_date |-> IF body.delivery_date # NoDate THEN body.delivery_date ELSE t]
Product(body, t) ==
    [name |-> body.name, quantity |-> body.quantity, threshold |-> body.threshold,
     delivery_date |-> t]

\* POST /products up to `await db.flush()`: the INSERT of the product row.
create_new_product(p) ==
    /\ Receive(p)
    /\ UNCHANGED <<db, meal_seq, published, run>>
    /\ \E c \in CreateProductCalls :
         LET r == Began(c)
             body == r.body
         IN IF ~ProductCreate(body)
              THEN Respond(p, r, 422, Unprocessable) /\ UNCHANGED product_seq
            ELSE IF users[r.user] \notin {"admin", "manager"}
              THEN Respond(p, r, 403, NotAuthorized) /\ UNCHANGED product_seq
            ELSE
              /\ body.name \notin PendingNames(p)
              /\ product_seq' = product_seq + 1
              /\ IF body.name \in CommittedNames
                   \* IntegrityError out of flush(), outside the try around commit()
                   THEN Respond(p, r, 500, ServerError)
                   ELSE Continue(p, r, "create_product_commit",
                          [NewSession EXCEPT
                             !.id = product_seq + 1,
                             !.row = Product(body, now),
                             !.logs = <<[product_id |-> product_seq + 1,
                                         change_type |-> "delivery",
                                         quantity |-> body.quantity,
                                         timestamp |-> now, user_id |-> 1]>>])

\* The commit of create_product writing the product without its log row.
create_product_commit_unlogged(p) ==
    /\ pc[p] = "create_product_commit"
    /\ products' = (session[p].id :> session[p].row) @@ products
    /\ Respond(p, req[p], 200, <<"product", session[p].id>>)
    /\ UNCHANGED <<meals, meal_ingredients, meal_servings, inventory_logs, seqs,
                   published, quota, run>>

\* `await db.commit()` of create_product: the product and its log row.
create_product_commit(p) ==
    /\ pc[p] = "create_product_commit"
    /\ products' = (session[p].id :> session[p].row) @@ products
    /\ inventory_logs' = inventory_logs \o session[p].logs
    /\ Respond(p, req[p], 200, <<"product", session[p].id>>)
    /\ UNCHANGED <<meals, meal_ingredients, meal_servings, seqs, published, quota, run>>

\* The InventoryLog row update_product adds when the quantity differs.
AdjustmentLog(id, old_quantity, new_quantity, t) ==
    IF old_quantity # new_quantity
      THEN <<[product_id |-> id,
              change_type |-> IF new_quantity > old_quantity THEN "delivery" ELSE "adjustment",
              quantity |-> Abs(new_quantity - old_quantity),
              timestamp |-> t, user_id |-> 1]>>
      ELSE <<>>

\* PUT /products/{id} up to the commit: load the row, set every field of the
\* body on it, add the log row when the quantity differs.
update_existing_product(p) ==
    /\ Receive(p)
    /\ UNCHANGED <<db, seqs, published, run>>
    /\ \E c \in UpdateProductCalls :
         LET r == Began(c)
             body == r.body
         IN IF ~ProductCreate(body)
              THEN Respond(p, r, 422, Unprocessable)
            ELSE IF users[r.user] \notin {"admin", "manager"}
              THEN Respond(p, r, 403, NotAuthorized)
            ELSE IF r.id \notin DOMAIN products
              THEN Respond(p, r, 404, <<"Product not found">>)
            ELSE Continue(p, r, "update_product_commit",
                   [NewSession EXCEPT
                      !.id = r.id,
                      !.row = products[r.id],
                      !.logs = AdjustmentLog(r.id, products[r.id].quantity,
                                             body.quantity, now)])

\* The UPDATE the unit of work emits for a row: the columns whose value in the
\* session differs from the value loaded, set to the session's value.
FlushedRow(committed, loaded, body) ==
    [f \in DOMAIN committed |-> IF body[f] # loaded[f] THEN body[f] ELSE committed[f]]

\* The commit of update_product on a table without the unique constraint.
update_product_commit_unconstrained(p) ==
    /\ pc[p] = "update_product_commit"
    /\ LET id == session[p].id
           new == FlushedRow(products[id], session[p].row, req[p].body)
       IN  /\ products' = [products EXCEPT ![id] = new]
           /\ inventory_logs' = inventory_logs \o session[p].logs
           /\ IF ProductSchema(new)
                THEN Respond(p, req[p], 200, <<"product", id>>)
                ELSE Respond(p, req[p], 500, ServerError)
    /\ UNCHANGED <<meals, meal_ingredients, meal_servings, seqs, published, quota, run>>

\* `await db.commit()` of update_product.
update_product_commit(p) ==
    /\ pc[p] = "update_product_commit"
    /\ LET id == session[p].id
           new == FlushedRow(products[id], session[p].row, req[p].body)
       IN  /\ new.name \in PendingNames(p) => new.name = products[id].name
           /\ IF \E k \in DOMAIN products \ {id} : products[k].name = new.name
                \* unique constraint on products.name: IntegrityError, nothing written
                THEN /\ Respond(p, req[p], 500, ServerError)
                     /\ UNCHANGED <<products, inventory_logs>>
                ELSE /\ products' = [products EXCEPT ![id] = new]
                     /\ inventory_logs' = inventory_logs \o session[p].logs
                     /\ IF ProductSchema(new)
                          THEN Respond(p, req[p], 200, <<"product", id>>)
                          \* the commit is done; ResponseValidationError on the way out
                          ELSE Respond(p, req[p], 500, ServerError)
    /\ UNCHANGED <<meals, meal_ingredients, meal_servings, seqs, published, quota, run>>

\* GET /products/{id}: crud.get_product and the response.
read_product(p) ==
    /\ Receive(p)
    /\ UNCHANGED <<db, seqs, published, run>>
    /\ \E c \in ReadProductCalls :
         LET r == Began(c)
         IN IF r.id \notin DOMAIN products
              THEN Respond(p, r, 404, <<"Product not found">>)
            ELSE IF ~ProductSchema(products[r.id])
              THEN Respond(p, r, 500, ServerError)
            ELSE Respond(p, r, 200, <<"product", r.id, products[r.id]>>)

\* `db.delete(db_product)`: AsyncSession.delete is a coroutine function and the
\* call is not awaited, so the coroutine never runs and the row is not marked
\* deleted: the table is what it was.
db_delete_awaited(table, id) == [k \in DOMAIN table \ {id} |-> table[k]]
db_delete(table, id) == table

\* DELETE /products/{id} up to the commit: load the row, add the removal log row.
delete_existing_product(p) ==
    /\ Receive(p)
    /\ UNCHANGED <<db, seqs, published, run>>
    /\ \E c \in DeleteProductCalls :
         LET r == Began(c)
         IN IF users[r.user] \notin {"admin", "manager"}
              THEN Respond(p, r, 403, NotAuthorized)
            ELSE IF r.id \notin DOMAIN products
              THEN Respond(p, r, 404, <<"Product not found">>)
            ELSE Continue(p, r, "delete_product_commit",
                   [NewSession EXCEPT
                      !.id = r.id,
                      !.row = products[r.id],
                      !.logs = <<[product_id |-> r.id, change_type |-> "removal",
                                  quantity |-> products[r.id].quantity,
                                  timestamp |-> now, user_id |-> 1]>>])

\* delete_product with the deletion cascading to the product's log rows.
delete_product_commit_cascading(p) ==
    /\ pc[p] = "delete_product_commit"
    /\ products' = db_delete_awaited(products, session[p].id)
    /\ inventory_logs' = SelectSeq(inventory_logs \o session[p].logs,
                                   LAMBDA row : row.product_id # session[p].id)
    /\ Respond(p, req[p], 200, <<"Product deleted">>)
    /\ UNCHANGED <<meals, meal_ingredients, meal_servings, seqs, published, quota, run>>

\* `await db.commit()` of delete_product.
delete_product_commit(p) ==
    /\ pc[p] = "delete_product_commit"
    /\ products' = db_delete(products, session[p].id)
    /\ inventory_logs' = inventory_logs \o session[p].logs
    /\ Respond(p, req[p], 200, <<"Product deleted">>)
    /\ UNCHANGED <<meals, meal_ingredients, meal_servings, seqs, published, quota, run>>

-----------------------------------------------------------------------------
(* Meals: crud.create_meal, update_meal, delete_meal. *)

MealNamesCommitted == {meals[k].name : k \in DOMAIN meals}

\* select(MealIngredient).where(MealIngredient.meal_id == meal_id)
IngredientsOf_unfiltered(meal_id) == meal_ingredients
IngredientsOf(meal_id) == SelectSeq(meal_ingredients, LAMBDA row : row.meal_id = meal_id)

\* POST /meals up to the first `await db.commit()`: the meal row is committed
\* before any ingredient is looked at.
create_new_meal(p) ==
    /\ Receive(p)
    /\ UNCHANGED <<products, meal_ingredients, meal_servings, inventory_logs,
                   product_seq, published, run>>
    /\ \E c \in CreateMealCalls :
         LET r == Began(c)
             body == r.body
         IN IF ~MealCreate(body)
              THEN Respond(p, r, 422, Unprocessable) /\ UNCHANGED <<meals, meal_seq>>
            ELSE IF users[r.user] \notin {"admin", "manager"}
              THEN Respond(p, r, 403, NotAuthorized) /\ UNCHANGED <<meals, meal_seq>>
            ELSE
              /\ meal_seq' = meal_seq + 1
              /\ IF body.name \in MealNamesCommitted
                   \* unique constraint on meals.name: IntegrityError, not caught
                   THEN Respond(p, r, 500, ServerError) /\ UNCHANGED meals
                   ELSE /\ meals' = ((meal_seq + 1) :> [name |-> body.name]) @@ meals
                        /\ Continue(p, r, "create_meal",
                             [NewSession EXCEPT !.id = meal_seq + 1, !.i = 1])

\* One turn of the loop of create_meal over the request's ingredients, and after
\* the last one the second `await db.commit()`.
create_meal(p) ==
    /\ pc[p] = "create_meal"
    /\ LET given == req[p].body.ingredients
           k == session[p].i
           rows == session[p].ingredients
       IN  IF k <= Len(given)
             THEN /\ IF given[k].product_id \notin DOMAIN products
                       THEN Respond(p, req[p], 422,
                                    <<"Product not found", given[k].product_id>>)
                       ELSE Continue(p, req[p], "create_meal",
                              [session[p] EXCEPT
                                 !.i = k + 1,
                                 !.ingredients =
                                    Append(@, Ingredient(session[p].id, given[k].product_id,
                                                         given[k].quantity))])
                  /\ UNCHANGED meal_ingredients
           ELSE IF \E a, b \in DOMAIN rows : a # b /\ rows[a].product_id = rows[b].product_id
             \* primary key (meal_id, product_id): IntegrityError, nothing written
             THEN Respond(p, req[p], 500, ServerError) /\ UNCHANGED meal_ingredients
           ELSE /\ meal_ingredients' = meal_ingredients \o rows
                /\ Respond(p, req[p], 200, <<"meal", session[p].id>>)
    /\ UNCHANGED <<products, meals, meal_servings, inventory_logs, seqs, published,
                   quota, run>>

\* PUT /meals/{id}: `select(MealIngredient).where(...).delete()` raises
\* AttributeError (a Select has no delete) before anything is committed.
update_existing_meal(p) ==
    /\ Receive(p)
    /\ UNCHANGED <<db, seqs, published, run>>
    /\ \E c \in UpdateMealCalls :
         LET r == Began(c)
         IN IF ~MealCreate(r.body)
              THEN Respond(p, r, 422, Unprocessable)
            ELSE IF users[r.user] \notin {"admin", "manager"}
              THEN Respond(p, r, 403, NotAuthorized)
            ELSE IF r.id \notin DOMAIN meals
              THEN Respond(p, r, 404, <<"Meal not found">>)
            ELSE Respond(p, r, 500, ServerError)

\* DELETE /meals/{id} up to the SELECT of the meal.
delete_existing_meal(p) ==
    /\ Receive(p)
    /\ UNCHANGED <<db, seqs, published, run>>
    /\ \E c \in DeleteMealCalls :
         LET r == Began(c)
         IN IF users[r.user] \notin {"admin", "manager"}
              THEN Respond(p, r, 403, NotAuthorized)
            ELSE IF r.id \notin DOMAIN meals
              THEN Respond(p, r, 404, <<"Meal not found">>)
            ELSE Continue(p, r, "delete_meal", [NewSession EXCEPT !.id = r.id])

\* delete_meal without the check for servings.
delete_meal_unguarded(p) ==
    /\ pc[p] = "delete_meal"
    /\ Respond(p, req[p], 500, ServerError)
    /\ UNCHANGED <<db, seqs, published, quota, run>>

\* delete_meal deleting the meal with its ingredient rows and its servings.
delete_meal_cascading(p) ==
    /\ pc[p] = "delete_meal"
    /\ meals' = db_delete_awaited(meals, session[p].id)
    /\ meal_ingredients' = SelectSeq(meal_ingredients,
                                     LAMBDA row : row.meal_id # session[p].id)
    /\ meal_servings' = SelectSeq(meal_servings,
                                  LAMBDA row : row.meal_id # session[p].id)
    /\ Respond(p, req[p], 200, <<"Meal deleted">>)
    /\ UNCHANGED <<products, inventory_logs, seqs, published, quota, run>>

\* delete_meal deleting the meal with its ingredient rows, served or not.
delete_meal_removing(p) ==
    /\ pc[p] = "delete_meal"
    /\ meals' = db_delete_awaited(meals, session[p].id)
    /\ meal_ingredients' = SelectSeq(meal_ingredients,
                                     LAMBDA row : row.meal_id # session[p].id)
    /\ Respond(p, req[p], 200, <<"Meal deleted">>)
    /\ UNCHANGED <<products, meal_servings, inventory_logs, seqs, published, quota, run>>

\* delete_meal from the SELECT of the servings on: refused when one exists,
\* otherwise the same AttributeError as update_meal, before any commit.
delete_meal(p) ==
    /\ pc[p] = "delete_meal"
    /\ IF \E k \in DOMAIN meal_servings : meal_servings[k].meal_id = session[p].id
         THEN Respond(p, req[p], 400, <<"Cannot delete meal with existing servings">>)
         ELSE Respond(p, req[p], 500, ServerError)
    /\ UNCHANGED <<db, seqs, published, quota, run>>

-----------------------------------------------------------------------------
(* Serving: crud.serve_meal. *)

\* POST /serve-meal up to the SELECT of the meal's ingredient rows.
serve_meal_endpoint(p) ==
    /\ Receive(p)
    /\ UNCHANGED <<db, seqs, published, run>>
    /\ \E c \in ServeMealCalls :
         LET r == Began(c)
             ingredients == IngredientsOf(r.id)
         IN IF users[r.user] \notin {"admin", "cook"}
              THEN Respond(p, r, 403, NotAuthorized)
            ELSE IF ingredients = <<>>
              THEN Respond(p, r, 404, <<"Meal has no ingredients defined">>)
            ELSE Continue(p, r, "serve_meal",
                   [NewSession EXCEPT !.ingredients = ingredients, !.i = 1])

\* The check of one ingredient against the product row just loaded:
\* `not product or product.quantity < ingredient.quantity`.
Insufficient_le(table, ingredient) ==
    \/ ingredient.product_id \notin DOMAIN table
    \/ table[ingredient.product_id].quantity <= ingredient.quantity
Insufficient(table, ingredient) ==
    \/ ingredient.product_id \notin DOMAIN table
    \/ table[ingredient.product_id].quantity < ingredient.quantity

\* serve_meal with a commit inside the loop: each turn writes its decrement and
\* its log row at once.
serve_meal_committing(p) ==
    /\ pc[p] = "serve_meal"
    /\ LET ingredient == session[p].ingredients[session[p].i]
           pid == ingredient.product_id
       IN  IF Insufficient(products, ingredient)
             THEN /\ Respond(p, req[p], 400, <<"Insufficient quantity for", "product">>)
                  /\ UNCHANGED <<products, inventory_logs, published>>
             ELSE /\ Continue(p, req[p],
                        IF session[p].i = Len(session[p].ingredients)
                          THEN "serve_meal_commit" ELSE "serve_meal",
                        [session[p] EXCEPT !.i = @ + 1])
                  /\ products' = [products EXCEPT ![pid].quantity = @ - ingredient.quantity]
                  /\ inventory_logs' = Append(inventory_logs,
                                              [product_id |-> pid,
                                               change_type |-> "consumption",
                                               quantity |-> ingredient.quantity,
                                               timestamp |-> now,
                                               user_id |-> req[p].user])
                  /\ published' = Append(published, [quantity |-> ingredient.quantity,
                                                     product_id |-> pid])
    /\ UNCHANGED <<meals, meal_ingredients, meal_servings, seqs, quota, run>>

\* One turn of the loop of serve_meal: SELECT the product, check it, decrement
\* the loaded row, add the consumption log row, publish the notification.
serve_meal(p) ==
    /\ pc[p] = "serve_meal"
    /\ LET ingredient == session[p].ingredients[session[p].i]
           pid == ingredient.product_id
       IN  IF Insufficient(products, ingredient)
             THEN /\ Respond(p, req[p], 400,
                        <<"Insufficient quantity for",
                          IF pid \in DOMAIN products THEN products[pid].name ELSE "product">>)
                  /\ UNCHANGED published
             ELSE /\ Continue(p, req[p],
                        IF session[p].i = Len(session[p].ingredients)
                          THEN "serve_meal_commit" ELSE "serve_meal",
                        [session[p] EXCEPT
                           !.i = @ + 1,
                           !.loaded = (pid :> (products[pid].quantity - ingredient.quantity)) @@ @,
                           !.logs = Append(@, [product_id |-> pid,
                                               change_type |-> "consumption",
                                               quantity |-> ingredient.quantity,
                                               timestamp |-> now,
                                               user_id |-> req[p].user])])
                  /\ published' = Append(published, [quantity |-> ingredient.quantity,
                                                     product_id |-> pid])
    /\ UNCHANGED <<db, seqs, quota, run>>

\* The turn of the loop in which `await redis_client.publish(...)` raises (the
\* connection to redis fails): nothing catches it, the finally closes the
\* client and the exception leaves serve_meal with nothing committed.
serve_meal_publish_error(p) ==
    /\ pc[p] = "serve_meal"
    /\ ~Insufficient(products, session[p].ingredients[session[p].i])
    /\ Respond(p, req[p], 500, ServerError)
    /\ UNCHANGED <<db, seqs, published, quota, run>>

\* The commit of serve_meal waiting until no other request is under way.
serve_meal_commit_waiting(p) ==
    /\ pc[p] = "serve_meal_commit"
    /\ \A q \in Sessions \ {p} : pc[q] = "idle"
    /\ products' = [id \in DOMAIN products |->
                      IF id \in DOMAIN session[p].loaded
                        THEN [products[id] EXCEPT !.quantity = session[p].loaded[id]]
                        ELSE products[id]]
    /\ inventory_logs' = inventory_logs \o session[p].logs
    /\ meal_servings' = Append(meal_servings, [meal_id |-> req[p].id,
                                               user_id |-> req[p].user,
                                               timestamp |-> now])
    /\ Respond(p, req[p], 200, <<"serving", Len(meal_servings) + 1>>)
    /\ UNCHANGED <<meals, meal_ingredients, seqs, published, quota, run>>

\* The UPDATEs of the commit of serve_meal: each product row the session
\* modified gets the quantity the session holds for it.
WriteLoaded(table, loaded) ==
    [k \in DOMAIN table |->
       IF k \in DOMAIN loaded THEN [table[k] EXCEPT !.quantity = loaded[k]] ELSE table[k]]

\* `db.add(serving)` and `await db.commit()` of serve_meal.
serve_meal_commit(p) ==
    /\ pc[p] = "serve_meal_commit"
    /\ products' = WriteLoaded(products, session[p].loaded)
    /\ inventory_logs' = inventory_logs \o session[p].logs
    /\ meal_servings' = Append(meal_servings, [meal_id |-> req[p].id,
                                               user_id |-> req[p].user,
                                               timestamp |-> now])
    /\ Respond(p, req[p], 200, <<"serving", Len(meal_servings) + 1>>)
    /\ UNCHANGED <<meals, meal_ingredients, seqs, published, quota, run>>

-----------------------------------------------------------------------------
(* Portion estimates: crud.get_portion_estimates. *)

\* float("inf"), the value `portions` starts from.
inf == -1

\* min(portions, avail)
min(portions, avail) ==
    IF portions = inf THEN avail
    ELSE IF avail < portions THEN avail ELSE portions

\* floor(product.quantity / ingredient.quantity) if ingredient.quantity > 0 else 0
avail_ceil(product, ingredient) ==
    IF ingredient.quantity > 0
      THEN (product.quantity + ingredient.quantity - 1) \div ingredient.quantity ELSE 0
avail(product, ingredient) ==
    IF ingredient.quantity > 0 THEN product.quantity \div ingredient.quantity ELSE 0

\* The rows of select(Meal), in the order of their ids.
RECURSIVE MealRows(_)
MealRows(ids) ==
    IF ids = {} THEN <<>>
    ELSE LET first == CHOOSE x \in ids : \A y \in ids : x <= y
         IN  <<[id |-> first, name |-> meals[first].name]>> \o MealRows(ids \ {first})

Estimate(meal, portions) == [meal_id |-> meal.id, name |-> meal.name, portions |-> portions]

\* The loop over the meals goes to its next turn, or the call returns.
NextMeal(p, s) ==
    IF s.m = Len(s.meals)
      THEN Respond(p, req[p], 200, <<"estimates", s.estimates>>)
      ELSE Continue(p, req[p], "get_portion_estimates",
                    [s EXCEPT !.m = @ + 1, !.ingredients = <<>>, !.i = 0, !.portions = 0])

\* GET /portion-estimates up to the SELECT of the meals.
get_portion_estimates_endpoint(p) ==
    /\ Receive(p)
    /\ UNCHANGED <<db, seqs, published, run>>
    /\ \E c \in PortionEstimateCalls :
         LET r == Began(c)
             rows == MealRows(DOMAIN meals)
         IN IF users[r.user] \notin {"admin", "manager"}
              THEN Respond(p, r, 403, NotAuthorized)
            ELSE IF rows = <<>>
              THEN Respond(p, r, 200, <<"estimates", <<>>>>)
            ELSE Continue(p, r, "get_portion_estimates",
                          [NewSession EXCEPT !.meals = rows, !.m = 1])

\* The loop over the meals with a meal without ingredients passed over.
get_portion_estimates_skipping(p) ==
    /\ pc[p] = "get_portion_estimates"
    /\ LET meal == session[p].meals[session[p].m]
           ingredients == IngredientsOf(meal.id)
       IN  IF ingredients = <<>>
             THEN NextMeal(p, session[p])
             ELSE Continue(p, req[p], "get_portion_estimates_ingredient",
                           [session[p] EXCEPT
                              !.ingredients = ingredients, !.i = 1, !.portions = inf])
    /\ UNCHANGED <<db, seqs, published, quota, run>>

\* The loop over the meals announcing each meal it looks at on the channel.
get_portion_estimates_publishing(p) ==
    /\ pc[p] = "get_portion_estimates"
    /\ LET meal == session[p].meals[session[p].m]
           ingredients == IngredientsOf(meal.id)
       IN  IF ingredients = <<>>
             THEN NextMeal(p, [session[p] EXCEPT !.estimates = Append(@, Estimate(meal, 0))])
             ELSE Continue(p, req[p], "get_portion_estimates_ingredient",
                           [session[p] EXCEPT
                              !.ingredients = ingredients, !.i = 1, !.portions = inf])
    /\ published' = Append(published, [quantity |-> 0, product_id |-> 0])
    /\ UNCHANGED <<db, seqs, quota, run>>

\* One turn of the loop over the meals: SELECT the meal's ingredient rows; a
\* meal without any is estimated at 0.
get_portion_estimates(p) ==
    /\ pc[p] = "get_portion_estimates"
    /\ LET meal == session[p].meals[session[p].m]
           ingredients == IngredientsOf(meal.id)
       IN  IF ingredients = <<>>
             THEN NextMeal(p, [session[p] EXCEPT !.estimates = Append(@, Estimate(meal, 0))])
             ELSE Continue(p, req[p], "get_portion_estimates_ingredient",
                           [session[p] EXCEPT
                              !.ingredients = ingredients, !.i = 1, !.portions = inf])
    /\ UNCHANGED <<db, seqs, published, quota, run>>

\* One turn of the loop over the ingredients: SELECT the product and take the
\* minimum; after the last one, int(portions) goes into the estimates.
get_portion_estimates_ingredient(p) ==
    /\ pc[p] = "get_portion_estimates_ingredient"
    /\ LET meal == session[p].meals[session[p].m]
           ingredient == session[p].ingredients[session[p].i]
           portions == IF ingredient.product_id \in DOMAIN products
                         THEN min(session[p].portions,
                                  avail(products[ingredient.product_id], ingredient))
                         ELSE session[p].portions
       IN  IF session[p].i < Len(session[p].ingredients)
             THEN Continue(p, req[p], "get_portion_estimates_ingredient",
                           [session[p] EXCEPT !.i = @ + 1, !.portions = portions])
           ELSE IF portions = inf
             \* int(float("inf")) raises OverflowError
             THEN Respond(p, req[p], 500, ServerError)
           ELSE NextMeal(p, [session[p] EXCEPT
                               !.portions = portions,
                               !.estimates = Append(@, Estimate(meal, portions))])
    /\ UNCHANGED <<db, seqs, published, quota, run>>

-----------------------------------------------------------------------------
(* Reports (main.py, tasks.py).  The clock counts half days, so that a     *)
(* datetime is finer than the date it falls on.  Query parameters and      *)
(* column values are instants in UTC; an optional datetime is <<>> for     *)
(* None and <<t>> for the instant t.                                       *)

\* Readings of the clock in one day.
ticks_per_day == 2

\* datetime.timedelta(days=...)
timedelta(days) == days * ticks_per_day

\* datetime.date(): the day an instant falls on.
date(t) == t \div ticks_per_day

UsageReportCalls ==
    {Call("get_usage_report", 1, 0, [start_date |-> b[1], end_date |-> b[2]]) :
        b \in {<< <<>>, <<>> >>, << <<-60>>, <<>> >>, << <<-59>>, <<>> >>,
               << <<>>, <<-2>> >>, << <<-60>>, <<-1>> >>, << <<-30>>, <<-10>> >>,
               << <<60>>, <<>> >>}}
    \cup {Call("get_usage_report", 2, 0, [start_date |-> <<>>, end_date |-> <<>>])}

GenerateReportCalls == {Call("generate_report", u, 0, NoBody) : u \in {2, 3}}

NotificationsCalls == {Call("get_notifications", u, 0, NoBody) : u \in {1, 2}}

ReportCalls ==
    {Call("get_report", 1, id, NoBody) : id \in 1..2}
    \cup {Call("get_report", 2, 1, NoBody)}

DiscrepancyCalls ==
    {Call("get_discrepancy", 3, id, NoBody) : id \in 1..2}
    \cup {Call("get_discrepancy", 2, 1, NoBody)}

\* select(InventoryLog) with the where clauses of the bounds that are given,
\* here with the upper bound excluded.
logs_between_exclusive(start_date, end_date) ==
    SelectSeq(inventory_logs,
              LAMBDA log : /\ start_date = <<>> \/ log.timestamp >= start_date[1]
                           /\ end_date = <<>> \/ log.timestamp < end_date[1])

\* select(InventoryLog) with the where clauses of the bounds that are given.
logs_between(start_date, end_date) ==
    SelectSeq(inventory_logs,
              LAMBDA log : /\ start_date = <<>> \/ log.timestamp >= start_date[1]
                           /\ end_date = <<>> \/ log.timestamp <= end_date[1])

\* The loop of get_usage_report over the selected rows:
\* usage_data[date] = usage_data.get(date, 0) + log.quantity
RECURSIVE usage_loop(_, _)
usage_loop(logs, usage_data) ==
    IF logs = <<>> THEN usage_data
    ELSE LET log == Head(logs)
             day == date(log.timestamp)
             get == IF day \in DOMAIN usage_data THEN usage_data[day] ELSE 0
         IN  usage_loop(Tail(logs),
                        [d \in DOMAIN usage_data \cup {day} |->
                            IF d = day THEN get + log.quantity ELSE usage_data[d]])

\* GET /usage-report: its only await is the SELECT.
get_usage_report(p) ==
    /\ Receive(p)
    /\ UNCHANGED <<db, seqs, published, run>>
    /\ \E c \in UsageReportCalls :
         LET r == Began(c) IN
         IF users[r.user] \notin {"admin", "manager"}
           THEN Respond(p, r, 403, NotAuthorized)
           ELSE Respond(p, r, 200,
                        <<"usage", usage_loop(logs_between(r.body.start_date,
                                                           r.body.end_date), <<>>)>>)

\* The task a send_task has put on the broker: no worker has taken it.
Pending(name) == [name |-> name, state |-> "PENDING", result |-> <<>>]

\* celery_app.send_task: the message goes to the broker whatever
\* task_always_eager says, and the id of the task comes back at once.
send_task(name) == Append(jobs, Pending(name))

\* POST /generate-report
generate_report(p) ==
    /\ Receive(p)
    /\ UNCHANGED <<db, seqs, published, now, recording, catalog0>>
    /\ \E c \in GenerateReportCalls :
         LET r == Began(c) IN
         IF users[r.user] \notin {"admin", "manager"}
           THEN /\ Respond(p, r, 403, NotAuthorized)
                /\ UNCHANGED jobs
           ELSE /\ jobs' = send_task("tasks.generate_monthly_report")
                /\ Respond(p, r, 200, <<"task_id", Len(jobs')>>)

\* GET /notifications: its only await is the SELECT of the products below
\* their threshold (in no stated order); the task is sent after it.
get_notifications(p) ==
    /\ Receive(p)
    /\ UNCHANGED <<db, seqs, published, now, recording, catalog0>>
    /\ \E c \in NotificationsCalls :
         LET r == Began(c)
             low_inventory ==
                 {[id |-> id, name |-> products[id].name,
                   quantity |-> products[id].quantity] :
                     id \in {i \in DOMAIN products :
                                products[i].quantity < products[i].threshold}}
         IN IF users[r.user] \notin {"admin", "manager"}
              THEN /\ Respond(p, r, 403, NotAuthorized)
                   /\ UNCHANGED jobs
              ELSE /\ jobs' = send_task("tasks.calculate_discrepancy_rate")
                   /\ Respond(p, r, 200,
                              <<"low_inventory", low_inventory,
                                "discrepancy_task_id", Len(jobs')>>)

\* celery_app.AsyncResult(task_id): a task id the backend does not know reads
\* as pending.
AsyncResult(task_id) ==
    IF task_id \in DOMAIN jobs THEN jobs[task_id] ELSE Pending("")

\* The body get_report and get_discrepancy share.
Poll(p, r, failed) ==
    LET task_result == AsyncResult(r.id) IN
    IF users[r.user] \notin {"admin", "manager"}
      THEN Respond(p, r, 403, NotAuthorized)
    ELSE IF task_result.state \notin {"SUCCESS", "FAILURE"}
      THEN Respond(p, r, 200, <<"PENDING">>)
    ELSE IF task_result.state = "FAILURE"
      THEN Respond(p, r, 500, <<failed, task_result.result>>)
    ELSE Respond(p, r, 200, <<"SUCCESS", task_result.result>>)

\* GET /report/{task_id} with the result forgotten once it was read.
get_report_forgetting(p) ==
    /\ Receive(p)
    /\ UNCHANGED <<db, seqs, published, now, recording, catalog0>>
    /\ \E c \in ReportCalls :
         /\ Poll(p, Began(c), "Report generation failed")
         /\ jobs' = IF c.id \in DOMAIN jobs /\ users[c.user] # "cook"
                      THEN [jobs EXCEPT ![c.id] = Pending(@.name)] ELSE jobs

\* GET /report/{task_id}
get_report(p) ==
    /\ Receive(p)
    /\ UNCHANGED <<db, seqs, published, run>>
    /\ \E c \in ReportCalls : Poll(p, Began(c), "Report generation failed")

\* GET /discrepancy/{task_id}
get_discrepancy(p) ==
    /\ Receive(p)
    /\ UNCHANGED <<db, seqs, published, run>>
    /\ \E c \in DiscrepancyCalls : Poll(p, Began(c), "Discrepancy calculation failed")

\* The loop of generate_monthly_report over the selected rows.
RECURSIVE report_loop(_, _)
report_loop(logs, report) ==
    IF logs = <<>> THEN report
    ELSE LET log == Head(logs) IN
         report_loop(Tail(logs),
            IF log.change_type = "delivery"
              THEN [report EXCEPT !.total_deliveries = @ + log.quantity]
            ELSE IF log.change_type = "consumption"
              THEN [report EXCEPT !.total_consumption = @ + log.quantity]
            ELSE report)

\* A worker finishes task k of the backend with a state and a result.
Finish(k, state, result) ==
    /\ jobs' = [jobs EXCEPT ![k] = [@ EXCEPT !.state = state, !.result = result]]
    /\ response' = NoResponse
    /\ UNCHANGED <<db, seqs, published, now, pc, req, session, quota, recording,
                   history, catalog0>>

\* tasks.generate_monthly_report summing every row of the ledger.
generate_monthly_report_unwindowed ==
    \E k \in DOMAIN jobs :
       /\ jobs[k] = Pending("tasks.generate_monthly_report")
       /\ LET end_date == now
              start_date == end_date - timedelta(30)
          IN  Finish(k, "SUCCESS",
                     [start_date |-> start_date, end_date |-> end_date,
                      report |-> report_loop(inventory_logs,
                                    [total_deliveries |-> 0, total_consumption |-> 0])])

\* A worker runs tasks.generate_monthly_report: it reads the clock and runs
\* one SELECT.
generate_monthly_report ==
    \E k \in DOMAIN jobs :
       /\ jobs[k] = Pending("tasks.generate_monthly_report")
       /\ LET end_date == now
              start_date == end_date - timedelta(30)
          IN  Finish(k, "SUCCESS",
                     [start_date |-> start_date, end_date |-> end_date,
                      report |-> report_loop(logs_between(<<start_date>>, <<end_date>>),
                                    [total_deliveries |-> 0, total_consumption |-> 0])])

\* A worker runs tasks.calculate_discrepancy_rate: after the SELECT of the
\* servings it calls the coroutine function crud.get_portion_estimates
\* without awaiting it and iterates over what it got, a coroutine object;
\* the TypeError is caught and raised again, and the task ends in FAILURE.
calculate_discrepancy_rate ==
    \E k \in DOMAIN jobs :
       /\ jobs[k] = Pending("tasks.calculate_discrepancy_rate")
       /\ Finish(k, "FAILURE",
                 <<"Failed to calculate discrepancy rate",
                   "'coroutine' object is not iterable">>)

-----------------------------------------------------------------------------
(* The clock and the specifications. *)

Tick ==
    /\ now < MaxTime
    /\ now' = now + 1
    /\ response' = NoResponse
    /\ UNCHANGED <<db, seqs, published, pc, req, session, quota, recording, history,
                   catalog0, jobs>>

Next ==
    \E p \in Sessions :
       \/ create_new_product(p) \/ create_product_commit(p)
       \/ update_existing_product(p) \/ update_product_commit(p)
       \/ delete_existing_product(p) \/ delete_product_commit(p)
       \/ read_product(p)
       \/ create_new_meal(p) \/ create_meal(p)
       \/ update_existing_meal(p)
       \/ delete_existing_meal(p) \/ delete_meal(p)
       \/ serve_meal_endpoint(p) \/ serve_meal(p) \/ serve_meal_commit(p)
       \/ get_portion_estimates_endpoint(p) \/ get_portion_estimates(p)
       \/ get_portion_estimates_ingredient(p)

\* Any requests, in any interleaving, within one reading of the clock.
Spec == Init /\ [][Next]_vars

\* The same with the clock advancing.
SpecClock == Init /\ [][Next \/ Tick]_vars

\* Two requests, each a serving or a product update, in any interleaving, with
\* the history of their responses kept.
InitPair ==
    /\ \E catalog \in Catalogs \ {EmptyCatalog} : InitFrom(catalog)
    /\ quota = Cardinality(Sessions)
    /\ recording = TRUE

NextPair ==
    \E p \in Sessions :
       \/ update_existing_product(p) \/ update_product_commit(p)
       \/ serve_meal_endpoint(p) \/ serve_meal(p) \/ serve_meal_commit(p)

SpecPair == InitPair /\ [][NextPair]_vars

\* The same pairs of requests with the scheduling of the event loop: a handler
\* that can take its next step (its database call has returned) takes it.
SpecPairFair ==
    /\ SpecPair
    /\ \A p \in Sessions :
          /\ WF_vars(serve_meal(p))
          /\ WF_vars(serve_meal_commit(p))
          /\ WF_vars(update_product_commit(p))

\* Servings over a channel whose publish may fail.
NextUnreliableChannel ==
    \E p \in Sessions :
       \/ serve_meal_endpoint(p) \/ serve_meal(p) \/ serve_meal_commit(p)
       \/ serve_meal_publish_error(p)

SpecUnreliableChannel == Init /\ [][NextUnreliableChannel]_vars

\* The product endpoints alone, in any interleaving, with the clock advancing.
InitProducts ==
    /\ \E catalog \in {EmptyCatalog, Fixture} : InitFrom(catalog)
    /\ quota = MaxCalls
    /\ recording = FALSE

NextProducts ==
    \/ Tick
    \/ \E p \in Sessions :
          \/ create_new_product(p) \/ create_product_commit(p)
          \/ update_existing_product(p) \/ update_product_commit(p)
          \/ delete_existing_product(p) \/ delete_product_commit(p)
          \/ read_product(p)

SpecProducts == InitProducts /\ [][NextProducts]_vars

\* Catalogs for the portion estimates: the fixture with a meal without
\* ingredients added, two meals that share a product, the stock and needs of a
\* meal whose ratios do not divide evenly, and an ingredient that needs 0.
EmptyMealCatalog ==
    [Fixture EXCEPT !.meals = <<[name |-> "Breakfast"], [name |-> "EmptyMeal"]>>]

SharedProductCatalog ==
    [Fixture EXCEPT !.meals = <<[name |-> "Breakfast"], [name |-> "Lunch"]>>,
                    !.meal_ingredients = <<Ingredient(1, 1, 50), Ingredient(2, 1, 100)>>]

EstimateCatalogs ==
    {EmptyCatalog, EmptyMealCatalog, SharedProductCatalog,
     TwoIngredientCatalog(100, 30, 50, 20), TwoIngredientCatalog(100, 50, 50, 0)}

\* Two requests, each a portion estimate, a serving or a product update, in any
\* interleaving, with the history of their responses kept.
InitEstimate ==
    /\ \E catalog \in EstimateCatalogs : InitFrom(catalog)
    /\ quota = Cardinality(Sessions)
    /\ recording = TRUE

NextEstimate ==
    \E p \in Sessions :
       \/ get_portion_estimates_endpoint(p) \/ get_portion_estimates(p)
       \/ get_portion_estimates_ingredient(p)
       \/ update_existing_product(p) \/ update_product_commit(p)
       \/ serve_meal_endpoint(p) \/ serve_meal(p) \/ serve_meal_commit(p)

SpecEstimate == InitEstimate /\ [][NextEstimate]_vars

\* A kitchen that has been running for a month: Milk was delivered, topped
\* up, served, corrected, served again and (without effect on the row) deleted.
LedgerCatalog ==
    [products |-> <<ProductRow("Milk", 130, 0)>>,
     meals |-> <<[name |-> "Breakfast"]>>,
     meal_ingredients |-> <<Ingredient(1, 1, 50)>>,
     inventory_logs |->
        <<DeliveryLog(1, 200, -61),
          DeliveryLog(1, 40, -60),
          [product_id |-> 1, change_type |-> "consumption", quantity |-> 50,
           timestamp |-> -60, user_id |-> 2],
          [product_id |-> 1, change_type |-> "adjustment", quantity |-> 10,
           timestamp |-> -2, user_id |-> 1],
          [product_id |-> 1, change_type |-> "consumption", quantity |-> 50,
           timestamp |-> -1, user_id |-> 2],
          [product_id |-> 1, change_type |-> "removal", quantity |-> 130,
           timestamp |-> -1, user_id |-> 1]>>,
     meal_servings |-> <<[meal_id |-> 1, user_id |-> 2, timestamp |-> -60],
                         [meal_id |-> 1, user_id |-> 2, timestamp |-> -1]>>]

\* The reports, their jobs and servings, in any interleaving, with the clock
\* advancing.
InitReports ==
    /\ \E catalog \in {EmptyCatalog, LedgerCatalog} :
          /\ catalog0 = catalog
          /\ products = catalog.products
          /\ product_seq = Len(catalog.products)
          /\ meals = catalog.meals
          /\ meal_seq = Len(catalog.meals)
          /\ meal_ingredients = catalog.meal_ingredients
          /\ meal_servings = IF catalog = LedgerCatalog
                               THEN LedgerCatalog.meal_servings ELSE <<>>
          /\ inventory_logs = catalog.inventory_logs
    /\ published = <<>>
    /\ now = 0
    /\ pc = [p \in Sessions |-> "idle"]
    /\ req = [p \in Sessions |-> NoReq]
    /\ session = [p \in Sessions |-> NewSession]
    /\ response = NoResponse
    /\ history = <<>>
    /\ jobs = <<>>
    /\ quota = MaxCalls
    /\ recording = FALSE

NextReports ==
    \/ Tick
    \/ generate_monthly_report \/ calculate_discrepancy_rate
    \/ \E p \in Sessions :
          \/ generate_report(p) \/ get_notifications(p)
          \/ get_report(p) \/ get_discrepancy(p)
          \/ get_usage_report(p)
          \/ serve_meal_endpoint(p) \/ serve_meal(p) \/ serve_meal_commit(p)

SpecReports == InitReports /\ [][NextReports]_vars

-----------------------------------------------------------------------------
(* Properties. *)

\* A response to a serve_meal request was sent by the step just taken.
Served(status) == response.request.op = "serve_meal" /\ response.status = status

\* C1: in every committed state, whatever requests ran and however they
\* interleaved, every product's quantity is greater than or equal to 0.
C1_QuantityNeverNegative == \A id \in DOMAIN products : products[id].quantity >= 0

\* A serving has just committed and left a product with nothing in stock.
C1_Witness ==
    /\ Served(200)
    /\ \E id \in DOMAIN products : products[id].quantity = 0
    /\ \E k \in DOMAIN inventory_logs : inventory_logs[k].change_type = "adjustment"

\* The step is one of a serve_meal request handled in slot p.
StepOfServe(p) ==
    \/ pc[p] \in {"serve_meal", "serve_meal_commit"} /\ pc'[p] # pc[p]
    \/ pc[p] = "serve_meal" /\ session'[p] # session[p]
    \/ /\ pc[p] = "idle" /\ quota' < quota
       /\ \/ req'[p].op = "serve_meal"
          \/ response'.session = p /\ response'.request.op = "serve_meal"

\* C2: serve_meal is all-or-nothing: no step of a serve_meal request other than
\* the one that answers 200 changes a product, the ledger or the servings, so a
\* request that fails (also at an ingredient checked after others passed) has
\* written nothing.
C2_ServeAllOrNothing ==
    [][\A p \in Sessions :
          (StepOfServe(p) /\ ~(response'.session = p /\ response'.status = 200))
             => UNCHANGED <<products, inventory_logs, meal_servings>>]_vars

\* A serving has just failed at its second ingredient, after the first passed
\* the check and was published.
C2_Witness ==
    /\ Served(400)
    /\ response.detail = <<"Insufficient quantity for", "Flour">>
    /\ catalog0 = TwoIngredientCatalog(100, 0, 50, 50)
    /\ \E k \in DOMAIN published : published[k].product_id = 1

\* The ingredient rows of a meal in a catalog, and what one serving takes of a product.
CatalogIngredients(catalog, meal_id) ==
    SelectSeq(catalog.meal_ingredients, LAMBDA row : row.meal_id = meal_id)

Needs(rows, id) ==
    IF \E k \in DOMAIN rows : rows[k].product_id = id
      THEN rows[CHOOSE k \in DOMAIN rows : rows[k].product_id = id].quantity
      ELSE 0

\* The stock of the catalog covers one serving of the meal and not two.
StockForExactlyOne(catalog, meal_id) ==
    LET rows == CatalogIngredients(catalog, meal_id) IN
    /\ rows # <<>>
    /\ \A k \in DOMAIN rows :
          /\ rows[k].product_id \in DOMAIN catalog.products
          /\ catalog.products[rows[k].product_id].quantity >= rows[k].quantity
    /\ \E k \in DOMAIN rows :
          catalog.products[rows[k].product_id].quantity < 2 * rows[k].quantity

\* Entry k of the history is an authorized serve_meal request for the meal.
IsServe(k, meal_id) ==
    /\ history[k].request.op = "serve_meal"
    /\ history[k].request.id = meal_id
    /\ users[history[k].request.user] \in {"admin", "cook"}

\* C3: two serve_meal requests for the same meal that run concurrently against
\* stock for exactly one serving: exactly one is answered 200 and the other 400
\* (insufficient stock), one MealServing is recorded, no stock is negative.
C3_ConcurrentServesOneSucceeds ==
    (/\ Len(history) = 2
     /\ IsServe(1, 1) /\ IsServe(2, 1)
     /\ history[1].request.began = 0 /\ history[2].request.began = 0
     /\ StockForExactlyOne(catalog0, 1))
    => /\ {history[1].status, history[2].status} = {200, 400}
       /\ Len(meal_servings) = 1
       /\ \A id \in DOMAIN products : products[id].quantity >= 0

\* What running one request alone, start to end, makes of the tables
\* (the reference C4 compares an interleaved run with).
AloneServe(st, r) ==
    LET rows == CatalogIngredients(catalog0, r.id) IN
    IF \/ users[r.user] \notin {"admin", "cook"}
       \/ rows = <<>>
       \/ \E k \in DOMAIN rows :
             \/ rows[k].product_id \notin DOMAIN st.products
             \/ st.products[rows[k].product_id].quantity < rows[k].quantity
      THEN st
      ELSE [products |->
              [id \in DOMAIN st.products |->
                 [st.products[id] EXCEPT !.quantity = @ - Needs(rows, id)]],
            inventory_logs |->
              st.inventory_logs \o
                [k \in DOMAIN rows |->
                   [product_id |-> rows[k].product_id, change_type |-> "consumption",
                    quantity |-> rows[k].quantity, timestamp |-> 0, user_id |-> r.user]]]

AloneUpdate(st, r) ==
    IF \/ r.body.quantity < 0 \/ r.body.threshold < 0
       \/ users[r.user] \notin {"admin", "manager"}
       \/ r.id \notin DOMAIN st.products
       \/ \E k \in DOMAIN st.products \ {r.id} : st.products[k].name = r.body.name
      THEN st
      ELSE LET old == st.products[r.id].quantity
               new == r.body.quantity
           IN [products |-> [st.products EXCEPT ![r.id] = r.body],
               inventory_logs |->
                 IF new = old THEN st.inventory_logs
                 ELSE Append(st.inventory_logs,
                             [product_id |-> r.id,
                              change_type |-> IF new > old THEN "delivery" ELSE "adjustment",
                              quantity |-> IF new > old THEN new - old ELSE old - new,
                              timestamp |-> 0, user_id |-> 1])]

Alone(st, r) == IF r.op = "serve_meal" THEN AloneServe(st, r) ELSE AloneUpdate(st, r)

Quantities(table) == [id \in DOMAIN table |-> table[id].quantity]

\* C4: a serve_meal request is serialized with a concurrent update_product or
\* serve_meal request on a shared product: when both commit, the product
\* quantities and the ledger are those of running the two one after the other
\* in some order.
C4_ServeSerializedWithMutators ==
    (/\ Len(history) = 2
     /\ history[1].status = 200 /\ history[2].status = 200
     /\ \E k \in 1..2 : history[k].request.op = "serve_meal")
    => LET a == history[1].request
           b == history[2].request
           s0 == [products |-> catalog0.products,
                  inventory_logs |-> catalog0.inventory_logs]
           ab == Alone(Alone(s0, a), b)
           ba == Alone(Alone(s0, b), a)
       IN  \E s \in {ab, ba} :
              /\ Quantities(products) = Quantities(s.products)
              /\ inventory_logs = s.inventory_logs

\* C5: the commit of a successful serve_meal request takes from each product
\* what the meal's ingredient row for it says and nothing from the others,
\* appends one consumption row per ingredient (product, amount, serving
\* user) and one MealServing for the meal and the user.
C5_ServeEffect ==
    [][\A p \in Sessions :
          (pc[p] = "serve_meal_commit" /\ response'.session = p /\ response'.status = 200)
          => LET rows == IngredientsOf(req[p].id) IN
             /\ products' =
                  [id \in DOMAIN products |->
                     [products[id] EXCEPT !.quantity = @ - Needs(rows, id)]]
             /\ inventory_logs' =
                  inventory_logs \o
                    [k \in DOMAIN rows |->
                       [product_id |-> rows[k].product_id, change_type |-> "consumption",
                        quantity |-> rows[k].quantity, timestamp |-> now,
                        user_id |-> req[p].user]]
             /\ meal_servings' =
                  Append(meal_servings, [meal_id |-> req[p].id, user_id |-> req[p].user,
                                         timestamp |-> now])]_vars

ServedInSequence(k) ==
    /\ Len(history) = k
    /\ \A j \in 1..k : IsServe(j, 1) /\ history[j].request.began = j - 1

C8_NoIngredientsNoServing ==
    /\ [](\A k \in DOMAIN meal_servings :
             \E j \in DOMAIN meal_ingredients :
                meal_ingredients[j].meal_id = meal_servings[k].meal_id)
    /\ [][\A p \in Sessions :
             LET r == IF req'[p].op = "serve_meal" THEN req'[p] ELSE response'.request IN
             (/\ pc[p] = "idle" /\ quota' < quota
              /\ req'[p].op = "serve_meal" \/ response'.session = p
              /\ r.op = "serve_meal"
              /\ users[r.user] \in {"admin", "cook"}
              /\ ~\E j \in DOMAIN meal_ingredients : meal_ingredients[j].meal_id = r.id)
             => /\ response'.session = p
                /\ response'.status = 404
                /\ response'.detail = <<"Meal has no ingredients defined">>
                /\ UNCHANGED <<db, published>>]_vars

\* A serving of a meal that exists and has no ingredients has just been refused,
\* while another meal has ingredients.
C8_Witness ==
    /\ Served(404)
    /\ response.request.id \in DOMAIN meals
    /\ meal_ingredients # <<>>

\* What the ledger says a product holds: its deliveries less its adjustments,
\* consumptions and removals.
LedgerBalance(id) ==
    SumSeq([k \in DOMAIN inventory_logs |->
              IF inventory_logs[k].product_id # id THEN 0
              ELSE IF inventory_logs[k].change_type = "delivery"
                THEN inventory_logs[k].quantity
                ELSE 0 - inventory_logs[k].quantity])

\* C9: in every committed state each product's quantity is what the ledger says
\* it holds.
C9_QuantityMatchesLedger ==
    \A id \in DOMAIN products : products[id].quantity = LedgerBalance(id)

\* C10: the ledger is append-only: every step leaves each row it held in place
\* and unchanged.
C10_LedgerAppendOnly ==
    [][/\ Len(inventory_logs') >= Len(inventory_logs)
       /\ \A k \in DOMAIN inventory_logs : inventory_logs'[k] = inventory_logs[k]]_vars

\* A product with rows in the ledger has just been deleted.
C10_Witness ==
    /\ response.request.op = "delete_product" /\ response.status = 200
    /\ \E k, j \in DOMAIN inventory_logs :
          /\ k < j
          /\ inventory_logs[k].product_id = response.request.id
          /\ inventory_logs[j].change_type = "removal"

\* A response to a get_portion_estimates request was sent by the step just taken.
Estimated == response.request.op = "portion_estimates" /\ response.status = 200

\* What the ingredient rows and the stock say a meal can be served: the least
\* whole number of times an ingredient's amount goes into its product's stock,
\* an ingredient of amount 0 counting as 0.
PortionsFrom(table, rows) ==
    LET ratios == {IF rows[k].quantity = 0 THEN 0
                   ELSE table[rows[k].product_id].quantity \div rows[k].quantity :
                      k \in DOMAIN rows}
    IN  CHOOSE x \in ratios : \A y \in ratios : x <= y

\* C11: a get_portion_estimates call during which nothing was committed returns
\* one record per meal, and for each meal with an ingredient the least, over its
\* ingredients, of floor(product quantity / ingredient quantity), an ingredient
\* of quantity 0 contributing 0.
C11_PortionsAreMinOfFloors ==
    (Estimated /\ response.request.began = Len(history) - 1)
    => LET estimates == response.detail[2] IN
       /\ Len(estimates) = Cardinality(DOMAIN meals)
       /\ \A id \in DOMAIN meals :
             Cardinality({k \in DOMAIN estimates : estimates[k].meal_id = id}) = 1
       /\ \A k \in DOMAIN estimates :
             IngredientsOf(estimates[k].meal_id) # <<>>
             => estimates[k].portions =
                   PortionsFrom(products, IngredientsOf(estimates[k].meal_id))

\* Estimates were returned for a meal whose ingredients give different ratios,
\* one of them not a whole number.
C11_Witness ==
    /\ Estimated /\ response.request.began = Len(history) - 1
    /\ catalog0 = TwoIngredientCatalog(100, 30, 50, 20)
    /\ response.detail[2][1].portions = 1
\* C12: a meal without ingredient rows is reported with portions = 0: the turn
\* of the loop that finds no ingredient rows puts the record with 0 portions
\* into the estimates, and no record returned for such a meal says otherwise.
C12_NoIngredientsZeroPortions ==
    /\ [](Estimated =>
            \A k \in DOMAIN response.detail[2] :
               (~\E j \in DOMAIN meal_ingredients :
                    meal_ingredients[j].meal_id = response.detail[2][k].meal_id)
               => response.detail[2][k].portions = 0)
    /\ [][\A p \in Sessions :
             (/\ pc[p] = "get_portion_estimates"
              /\ session'[p] # session[p]
              /\ ~\E j \in DOMAIN meal_ingredients :
                    meal_ingredients[j].meal_id = session[p].meals[session[p].m].id)
             => LET meal == session[p].meals[session[p].m]
                    expected == Append(session[p].estimates,
                                       [meal_id |-> meal.id, name |-> meal.name,
                                        portions |-> 0])
                IN  IF pc'[p] = "idle"
                      THEN /\ response'.session = p /\ response'.status = 200
                           /\ response'.detail[2] = expected
                      ELSE session'[p].estimates = expected]_vars

\* Estimates were returned that hold a meal without ingredients next to a meal
\* that can be served.
C12_Witness ==
    /\ Estimated
    /\ \E k, j \in DOMAIN response.detail[2] :
          /\ IngredientsOf(response.detail[2][k].meal_id) = <<>>
          /\ response.detail[2][k].portions = 0
          /\ response.detail[2][j].portions > 0

\* The estimates the tables of a catalog give, with the stock in `table`.
EstimatesFrom(catalog, table) ==
    [id \in DOMAIN catalog.meals |->
       [meal_id |-> id, name |-> catalog.meals[id].name,
        portions |-> IF CatalogIngredients(catalog, id) = <<>> THEN 0
                     ELSE PortionsFrom(table, CatalogIngredients(catalog, id))]]

StepOfEstimate(p) ==
    \/ /\ pc[p] \in {"get_portion_estimates", "get_portion_estimates_ingredient"}
       /\ pc'[p] # pc[p] \/ session'[p] # session[p]
    \/ /\ pc[p] = "idle" /\ quota' < quota
       /\ \/ req'[p].op = "portion_estimates"
          \/ response'.session = p /\ response'.request.op = "portion_estimates"

\* C14: no step of a get_portion_estimates request changes a table or publishes
\* a notification.
C14_EstimatesPureRead ==
    [][\A p \in Sessions : StepOfEstimate(p) => UNCHANGED <<db, published>>]_vars

\* Estimates were returned in a run in which a serving was recorded and published.
C14_Witness ==
    /\ Estimated
    /\ response.detail[2] # <<>>
    /\ meal_servings # <<>> /\ published # <<>>
\* C15: the commit of a successful create_product adds one product, with the
\* fields of the request, and one ledger row, a delivery for that product of
\* the product's initial quantity, and changes nothing else in either table;
\* and no state shows a product without a delivery row or a ledger row without
\* its product.
C15_CreateProductWithDelivery ==
    /\ [](/\ \A id \in DOMAIN products :
               \E k \in DOMAIN inventory_logs :
                  /\ inventory_logs[k].product_id = id
                  /\ inventory_logs[k].change_type = "delivery"
          /\ \A k \in DOMAIN inventory_logs :
               inventory_logs[k].product_id \in DOMAIN products)
    /\ [][\A p \in Sessions :
             (/\ pc[p] = "create_product_commit"
              /\ response'.session = p /\ response'.status = 200)
             => LET id == response'.detail[2]
                    body == req[p].body
                IN  /\ id \notin DOMAIN products
                    /\ DOMAIN products' = DOMAIN products \cup {id}
                    /\ \A k \in DOMAIN products : products'[k] = products[k]
                    /\ products'[id].name = body.name
                    /\ products'[id].quantity = body.quantity
                    /\ products'[id].threshold = body.threshold
                    /\ Len(inventory_logs') = Len(inventory_logs) + 1
                    /\ SubSeq(inventory_logs', 1, Len(inventory_logs)) = inventory_logs
                    /\ LET row == inventory_logs'[Len(inventory_logs')] IN
                       /\ row.product_id = id
                       /\ row.change_type = "delivery"
                       /\ row.quantity = body.quantity]_vars

\* A product has just been created next to the one the catalog had.
C15_Witness ==
    /\ response.request.op = "create_product" /\ response.status = 200
    /\ Cardinality(DOMAIN products) = 2
    /\ Len(inventory_logs) = 2

\* C16: a read of a product right after the request that created it returns
\* the name, quantity and threshold of that request, and a delivery_date the
\* server's clock gave, not the one in the request.
C16_CreateReadRoundTrip ==
    [][\A p \in Sessions :
          (/\ response.request.op = "create_product" /\ response.status = 200
           /\ response'.session = p
           /\ response'.request.op = "read_product"
           /\ response'.request.id = response.detail[2])
          => LET body == response.request.body IN
             /\ response'.status = 200
             /\ response'.detail[3].name = body.name
             /\ response'.detail[3].quantity = body.quantity
             /\ response'.detail[3].threshold = body.threshold
             /\ response'.detail[3].delivery_date \in 0..now
             /\ response'.detail[3].delivery_date # body.delivery_date]_vars

\* A product created by a request that carried a delivery_date has been read
\* back after the clock moved on.
C16_Witness ==
    /\ response.request.op = "read_product" /\ response.status = 200
    /\ response.request.id = 2
    /\ products[2].delivery_date = 1
    /\ now > 0
    /\ \E c \in CreateProductCalls :
          c.body.delivery_date # NoDate /\ c.body.name = products[2].name
\* The request that the step, taken from an idle slot p, receives.
Received(p) == IF req'[p].op # "none" THEN req'[p] ELSE response'.request

\* The step receives in slot p a request for the operation.
Receives(p, op) ==
    /\ pc[p] = "idle" /\ quota' < quota
    /\ req'[p].op # "none" \/ response'.session = p
    /\ Received(p).op = op

\* C17: a create_product request whose name a committed product has is answered
\* with the duplicate-name error (400, "A product with that name already
\* exists") and leaves the products and the ledger as they were.
C17_DuplicateNameRejected ==
    [][\A p \in Sessions :
          (/\ Receives(p, "create_product")
           /\ Received(p).body.quantity >= 0 /\ Received(p).body.threshold >= 0
           /\ users[Received(p).user] \in {"admin", "manager"}
           /\ \E id \in DOMAIN products : products[id].name = Received(p).body.name)
          => /\ response'.session = p
             /\ response'.status = 400
             /\ response'.detail = <<"A product with that name already exists">>
             /\ UNCHANGED <<products, inventory_logs>>]_vars

\* C18: a create_product or update_product request with a negative quantity or
\* a negative threshold is answered with a validation error (422) and leaves
\* every table as it was.
C18_NegativeRejected ==
    [][\A p \in Sessions :
          (/\ Receives(p, "create_product") \/ Receives(p, "update_product")
           /\ Received(p).body.quantity < 0 \/ Received(p).body.threshold < 0)
          => /\ response'.session = p
             /\ response'.status = 422
             /\ UNCHANGED db]_vars

\* An update with a negative threshold has just been refused for a product
\* that exists.
C18_Witness ==
    /\ response.request.op = "update_product" /\ response.status = 422
    /\ response.request.body.threshold < 0
    /\ response.request.id \in DOMAIN products
\* The ledger row an update of a product's quantity from old to new calls for.
ExpectedLog(id, old, new) ==
    IF new = old THEN <<>>
    ELSE <<[product_id |-> id,
            change_type |-> IF new > old THEN "delivery" ELSE "adjustment",
            quantity |-> IF new > old THEN new - old ELSE old - new]>>

\* The product, change type and quantity of the ledger rows from position k on.
LogsFrom(logs, k) ==
    [j \in 1..(Len(logs) - k + 1) |->
       [product_id |-> logs[j + k - 1].product_id,
        change_type |-> logs[j + k - 1].change_type,
        quantity |-> logs[j + k - 1].quantity]]

\* C19: the commit of update_product on an existing product sets the quantity
\* to the new one and appends, in the same step, one ledger row when the new
\* quantity differs from the stored one (delivery if it rose, adjustment if it
\* fell, of quantity abs(new - old)) and none when it does not differ; a request
\* for an absent id is answered not-found and changes nothing.
C19_UpdateProductLedger ==
    [][\A p \in Sessions :
          /\ (/\ pc[p] = "update_product_commit" /\ pc'[p] = "idle"
              /\ ~\E k \in DOMAIN products \ {session[p].id} :
                     products[k].name = req[p].body.name)
             => LET id == session[p].id
                    old == products[id].quantity
                    new == req[p].body.quantity
                IN  /\ products'[id].quantity = new
                    /\ SubSeq(inventory_logs', 1, Len(inventory_logs)) = inventory_logs
                    /\ LogsFrom(inventory_logs', Len(inventory_logs) + 1)
                          = ExpectedLog(id, old, new)
          /\ (/\ Receives(p, "update_product")
              /\ Received(p).body.quantity >= 0 /\ Received(p).body.threshold >= 0
              /\ users[Received(p).user] \in {"admin", "manager"}
              /\ Received(p).id \notin DOMAIN products)
             => /\ response'.session = p /\ response'.status = 404
                /\ UNCHANGED db]_vars

\* C20: the commit of delete_product on an existing product appends one removal
\* row of the product's full quantity and removes the product in the same step,
\* and a read of the id then reports not-found; a request for an absent id is
\* answered not-found and appends nothing.
C20_DeleteProductRemoves ==
    [][\A p \in Sessions :
          /\ (pc[p] = "delete_product_commit" /\ pc'[p] = "idle")
             => LET id == session[p].id IN
                /\ id \notin DOMAIN products'
                /\ SubSeq(inventory_logs', 1, Len(inventory_logs)) = inventory_logs
                /\ LogsFrom(inventory_logs', Len(inventory_logs) + 1)
                      = <<[product_id |-> id, change_type |-> "removal",
                           quantity |-> products[id].quantity]>>
          /\ (/\ response.request.op = "delete_product" /\ response.status = 200
              /\ Receives(p, "read_product")
              /\ Received(p).id = response.request.id)
             => response'.status = 404
          /\ (/\ Receives(p, "delete_product")
              /\ users[Received(p).user] \in {"admin", "manager"}
              /\ Received(p).id \notin DOMAIN products)
             => /\ response'.session = p /\ response'.status = 404
                /\ UNCHANGED db]_vars
\* C21: a create_meal request that names a product id that does not exist is
\* answered with the reference error (422) naming that id, and the committed
\* state that follows holds neither the meal nor an ingredient row of it.
C21_CreateMealAtomic ==
    [][\A p \in Sessions :
          (/\ pc[p] = "create_meal" /\ pc'[p] = "idle"
           /\ \E k \in DOMAIN req[p].body.ingredients :
                 req[p].body.ingredients[k].product_id \notin DOMAIN products)
          => /\ response'.session = p /\ response'.status = 422
             /\ response'.detail[2] \notin DOMAIN products
             /\ session[p].id \notin DOMAIN meals'
             /\ ~\E j \in DOMAIN meal_ingredients' :
                    meal_ingredients'[j].meal_id = session[p].id]_vars

\* C22: an update_meal request for an existing meal, with ingredients of
\* products that exist, is answered 200 and leaves the meal with exactly the
\* ingredient rows of the request; no step leaves a meal that had ingredient
\* rows without any; a request for an absent id is answered not-found.
C22_UpdateMealReplaces ==
    [][/\ \A p \in Sessions :
            /\ (/\ Receives(p, "update_meal")
                /\ \A k \in DOMAIN Received(p).body.ingredients :
                      /\ Received(p).body.ingredients[k].quantity >= 0
                      /\ Received(p).body.ingredients[k].product_id \in DOMAIN products
                /\ users[Received(p).user] \in {"admin", "manager"}
                /\ Received(p).id \in DOMAIN meals)
               => /\ response'.session = p /\ response'.status = 200
                  /\ SelectSeq(meal_ingredients',
                               LAMBDA row : row.meal_id = Received(p).id)
                       = [k \in DOMAIN Received(p).body.ingredients |->
                            [Received(p).body.ingredients[k]
                               EXCEPT !.meal_id = Received(p).id]]
            /\ (/\ Receives(p, "update_meal")
                /\ \A k \in DOMAIN Received(p).body.ingredients :
                      Received(p).body.ingredients[k].quantity >= 0
                /\ users[Received(p).user] \in {"admin", "manager"}
                /\ Received(p).id \notin DOMAIN meals)
               => response'.session = p /\ response'.status = 404
       /\ \A id \in DOMAIN meals :
            (\E j \in DOMAIN meal_ingredients : meal_ingredients[j].meal_id = id)
            => \E j \in DOMAIN meal_ingredients' : meal_ingredients'[j].meal_id = id]_vars

\* C23: a delete_meal request that finds a MealServing of the meal is answered
\* with the conflict error (400, "Cannot delete meal with existing servings")
\* and leaves every table as it was.
C23_DeleteServedMealRefused ==
    [][\A p \in Sessions :
          (/\ pc[p] = "delete_meal" /\ pc'[p] = "idle"
           /\ \E k \in DOMAIN meal_servings : meal_servings[k].meal_id = session[p].id)
          => /\ response'.session = p /\ response'.status = 400
             /\ response'.detail = <<"Cannot delete meal with existing servings">>
             /\ UNCHANGED db]_vars

\* The deletion of a meal that has been served has just been refused.
C23_Witness ==
    /\ response.request.op = "delete_meal" /\ response.status = 400
    /\ \E k \in DOMAIN meal_servings : meal_servings[k].meal_id = response.request.id
    /\ response.request.id \in DOMAIN meals

\* C24: a delete_meal request for an existing meal that no MealServing
\* references is answered 200 and removes the meal and its ingredient rows,
\* leaving the ingredient rows of other meals as they were.
C24_DeleteMealRemoves ==
    [][\A p \in Sessions :
          (/\ pc[p] = "delete_meal" /\ pc'[p] = "idle"
           /\ ~\E k \in DOMAIN meal_servings : meal_servings[k].meal_id = session[p].id)
          => /\ response'.session = p /\ response'.status = 200
             /\ session[p].id \notin DOMAIN meals'
             /\ meal_ingredients' =
                  SelectSeq(meal_ingredients,
                            LAMBDA row : row.meal_id # session[p].id)]_vars
\* The number of rows of the ledger of a change type.
CountOf(change_type) ==
    Cardinality({k \in DOMAIN inventory_logs :
                    inventory_logs[k].change_type = change_type})

\* C25: notifications are published only for servings that take effect: when
\* no serving is under way, the channel has carried one notification per
\* consumption row of the ledger (one per ingredient of each serving that
\* committed) and none for a serving that aborted.
C25_NotificationsOnlyForServings ==
    (\A p \in Sessions : pc[p] \notin {"serve_meal", "serve_meal_commit"})
    => Len(published) = CountOf("consumption")

\* C26: a publish that fails does not fail the serving: a turn of the loop
\* whose ingredient is sufficient leaves the request on its way to the commit,
\* whatever the publish did.
C26_PublishFailureDoesNotFailServing ==
    [][\A p \in Sessions :
          (/\ pc[p] = "serve_meal"
           /\ pc'[p] # pc[p] \/ session'[p] # session[p]
           /\ LET row == session[p].ingredients[session[p].i] IN
              /\ row.product_id \in DOMAIN products
              /\ products[row.product_id].quantity >= row.quantity)
          => pc'[p] \in {"serve_meal", "serve_meal_commit"}]_vars

\* The sum of the quantities of the ledger rows of a change type whose
\* timestamp lies between two instants, both included.
WindowSum(change_type, start_date, end_date) ==
    LET rows == SelectSeq(inventory_logs,
                          LAMBDA log : /\ log.change_type = change_type
                                       /\ start_date <= log.timestamp
                                       /\ log.timestamp <= end_date)
    IN  SumSeq([k \in DOMAIN rows |-> rows[k].quantity])

\* C27: the step in which generate_monthly_report finishes leaves the job
\* successful with total_deliveries the sum of the delivery rows and
\* total_consumption the sum of the consumption rows whose timestamp lies in
\* the 30 days ending now, both bounds included, rows of other types and rows
\* outside the window adding to neither; the step changes no table.
C27_MonthlyReportTotals ==
    [][\A k \in DOMAIN jobs :
          (jobs[k] = Pending("tasks.generate_monthly_report") /\ jobs'[k] # jobs[k])
          => /\ jobs'[k].state = "SUCCESS"
             /\ jobs'[k].result.end_date = now
             /\ jobs'[k].result.start_date = now - 30 * ticks_per_day
             /\ jobs'[k].result.report =
                   [total_deliveries |->
                        WindowSum("delivery", now - 30 * ticks_per_day, now),
                    total_consumption |->
                        WindowSum("consumption", now - 30 * ticks_per_day, now)]
             /\ UNCHANGED db]_vars

\* A monthly report is done whose window holds deliveries and consumption, an
\* adjustment that it did not count, and leaves an older delivery out.
C27_Witness ==
    \E k \in DOMAIN jobs :
          /\ jobs[k].name = "tasks.generate_monthly_report"
          /\ jobs[k].state = "SUCCESS"
          /\ jobs[k].result.report.total_deliveries > 0
          /\ jobs[k].result.report.total_consumption > 0
          /\ \E i, j \in DOMAIN inventory_logs :
                /\ inventory_logs[i].change_type = "delivery"
                /\ inventory_logs[i].timestamp < jobs[k].result.start_date
                /\ inventory_logs[j].change_type = "adjustment"
                /\ inventory_logs[j].timestamp >= jobs[k].result.start_date
                /\ inventory_logs[j].timestamp <= jobs[k].result.end_date

\* The sum of the current portion estimates over all meals.
PotentialPortions ==
    LET rows == MealRows(DOMAIN meals) IN
    SumSeq([k \in DOMAIN rows |->
               IF IngredientsOf(rows[k].id) = <<>> THEN 0
               ELSE PortionsFrom(products, IngredientsOf(rows[k].id))])

\* The number of servings recorded in the 30 days ending now.
ActualServings ==
    Cardinality({k \in DOMAIN meal_servings :
                    /\ now - 30 * ticks_per_day <= meal_servings[k].timestamp
                    /\ meal_servings[k].timestamp <= now})

\* C28: the step in which calculate_discrepancy_rate finishes leaves the job
\* successful with the number of servings of the last 30 days, the sum of the
\* current portion estimates, and the rate (potential - actual) / potential *
\* 100 (held as numerator and denominator), which is 0 when potential is 0.
C28_DiscrepancyRateComputed ==
    [][\A k \in DOMAIN jobs :
          (jobs[k] = Pending("tasks.calculate_discrepancy_rate") /\ jobs'[k] # jobs[k])
          => /\ jobs'[k].state = "SUCCESS"
             /\ jobs'[k].result.servings = ActualServings
             /\ jobs'[k].result.potential_portions = PotentialPortions
             /\ jobs'[k].result.discrepancy_rate =
                   IF PotentialPortions > 0
                     THEN <<(PotentialPortions - ActualServings) * 100, PotentialPortions>>
                     ELSE <<0, 1>>]_vars

\* A usage report was returned by the step just taken.
UsageReported == response.request.op = "get_usage_report" /\ response.status = 200

\* The ledger rows a usage report with the bounds of the request is about.
Entries(body) ==
    {k \in DOMAIN inventory_logs :
        /\ body.start_date = <<>> \/ body.start_date[1] <= inventory_logs[k].timestamp
        /\ body.end_date = <<>> \/ inventory_logs[k].timestamp <= body.end_date[1]}

RECURSIVE QuantityOf(_)
QuantityOf(ks) ==
    IF ks = {} THEN 0
    ELSE LET k == CHOOSE x \in ks : TRUE
         IN  inventory_logs[k].quantity + QuantityOf(ks \ {k})

\* C29: a usage report has one entry per date on which a ledger row with
\* start <= timestamp <= end falls (a bound that is not given does not
\* restrict), its value the sum of the quantities of those rows; rows outside
\* the window add nothing, and a window without rows gives the empty report.
C29_UsageReportAggregates ==
    UsageReported
    => LET usage == response.detail[2]
           entries == Entries(response.request.body)
       IN  /\ DOMAIN usage = {date(inventory_logs[k].timestamp) : k \in entries}
           /\ \A d \in DOMAIN usage :
                 usage[d] = QuantityOf({k \in entries :
                                           date(inventory_logs[k].timestamp) = d})
           /\ entries = {} => usage = <<>>

\* A usage report with both bounds given was returned: a row lies on the lower
\* bound and one on the upper, a row lies outside, and two rows share a date.
C29_Witness ==
    /\ UsageReported
    /\ LET body == response.request.body
           entries == Entries(body)
       IN  /\ body.start_date # <<>> /\ body.end_date # <<>>
           /\ \E k \in entries : inventory_logs[k].timestamp = body.start_date[1]
           /\ \E k \in entries : inventory_logs[k].timestamp = body.end_date[1]
           /\ entries # DOMAIN inventory_logs
           /\ \E i, j \in entries :
                 /\ i # j
                 /\ date(inventory_logs[i].timestamp) = date(inventory_logs[j].timestamp)
                 /\ inventory_logs[i].timestamp # inventory_logs[j].timestamp

\* C30: a job is created pending by the request that submits it, which returns
\* its id without the job having run; it goes once from pending to success or
\* to failure and never changes after that; a poll changes no job and answers
\* pending for a job that is not finished, success with the result of a job
\* that succeeded and the reason of a job that failed.
C30_JobLifecycle ==
    [][/\ \/ jobs' = jobs
          \/ \E name \in {"tasks.generate_monthly_report",
                          "tasks.calculate_discrepancy_rate"} :
                jobs' = Append(jobs, Pending(name))
          \/ \E k \in DOMAIN jobs :
                /\ jobs[k].state = "PENDING"
                /\ jobs'[k].state \in {"SUCCESS", "FAILURE"}
                /\ jobs' = [jobs EXCEPT ![k] = jobs'[k]]
                /\ jobs'[k].name = jobs[k].name
       /\ (response'.request.op \in {"generate_report", "get_notifications"}
           /\ response'.status = 200)
          => /\ jobs' = Append(jobs, jobs'[Len(jobs')])
             /\ jobs'[Len(jobs')].state = "PENDING"
             /\ response'.detail[Len(response'.detail)] = Len(jobs')
       /\ (response'.request.op \in {"get_report", "get_discrepancy"}
           /\ response'.status # 403)
          => /\ jobs' = jobs
             /\ LET id == response'.request.id
                    finished == id \in DOMAIN jobs /\ jobs[id].state # "PENDING"
                IN  IF ~finished
                      THEN response'.status = 200 /\ response'.detail = <<"PENDING">>
                    ELSE IF jobs[id].state = "SUCCESS"
                      THEN /\ response'.status = 200
                           /\ response'.detail = <<"SUCCESS", jobs[id].result>>
                    ELSE /\ response'.status = 500
                         /\ response'.detail[2] = jobs[id].result]_vars

\* The report of a job that succeeded was returned to a poll.
C30_Witness ==
    /\ response.request.op = "get_report"
    /\ response.status = 200
    /\ response.detail[1] = "SUCCESS"
    /\ response.detail[2] = jobs[response.request.id].result

\* C31: the rows a request adds to the ledger carry the id of the user who
\* sent the request, whichever of the four change types they record.
C31_LedgerActorIsCaller ==
    [][\A p \in Sessions :
          (req[p].op # "none" /\ pc'[p] = "idle"
           /\ Len(inventory_logs') > Len(inventory_logs))
          => \A k \in (Len(inventory_logs) + 1)..Len(inventory_logs') :
                inventory_logs'[k].user_id = req[p].user]_vars

\* C32: a serving, once recorded, keeps its meal, its actor and its timestamp
\* and stays recorded: no step changes or removes a row of meal_servings.
C32_ServingsImmutable ==
    [][/\ Len(meal_servings') >= Len(meal_servings)
       /\ \A k \in DOMAIN meal_servings : meal_servings'[k] = meal_servings[k]]_vars

\* An update of a meal that has a serving has just been answered.
C32_Witness ==
    /\ response.request.op = "update_meal"
    /\ response.status \notin {403, 422}
    /\ \E k \in DOMAIN meal_servings : meal_servings[k].meal_id = response.request.id

\* The products table after one serving of a meal with these ingredient rows.
AfterServing(table, rows) ==
    [id \in DOMAIN table |->
        LET used == SelectSeq(rows, LAMBDA row : row.product_id = id)
        IN  [table[id] EXCEPT
               !.quantity = @ - SumSeq([k \in DOMAIN used |-> used[k].quantity])]]

\* How many of `tries` consecutive servings of the meal serve_meal lets
\* through before it raises for an insufficient ingredient.
RECURSIVE ServingsOutOf(_, _, _)
ServingsOutOf(table, rows, tries) ==
    IF tries = 0 \/ \E k \in DOMAIN rows : Insufficient(table, rows[k])
      THEN 0
      ELSE 1 + ServingsOutOf(AfterServing(table, rows), rows, tries - 1)

\* C33: when get_portion_estimates, with nothing committed meanwhile, reports
\* n portions for a meal that has ingredients, then of n + 1 servings of that
\* meal made one after the other from this state exactly the first n succeed:
\* the one after them fails for insufficient stock.
C33_EstimateAgreesWithServing ==
    (Estimated /\ response.request.began = Len(history) - 1)
    => \A k \in DOMAIN response.detail[2] :
          LET estimate == response.detail[2][k]
              rows == IngredientsOf(estimate.meal_id)
          IN  rows # <<>>
              => ServingsOutOf(products, rows, estimate.portions + 1) = estimate.portions

\* C34: a meal that has a committed serving exists, in the state of the commit
\* and in every state after it (servings are never removed, C32): every row of
\* meal_servings references a row of meals.
C34_ServedMealStays ==
    \A k \in DOMAIN meal_servings : meal_servings[k].meal_id \in DOMAIN meals

\* A meal was served in this run, and a request to delete it has been answered.
C34_Witness ==
    /\ response.request.op = "delete_meal"
    /\ response.status # 403
    /\ Len(inventory_logs) > Len(catalog0.inventory_logs)
    /\ \E k \in DOMAIN meal_servings :
          /\ meal_servings[k].meal_id = response.request.id
          /\ meal_servings[k].meal_id \in DOMAIN meals

\* C35: in every committed state every row of meal_ingredients references a
\* meal that exists and a product that exists, whatever create_meal,
\* update_meal, delete_meal, create_product and delete_product requests ran.
C35_IngredientsReferenceRows ==
    \A k \in DOMAIN meal_ingredients :
       /\ meal_ingredients[k].meal_id \in DOMAIN meals
       /\ meal_ingredients[k].product_id \in DOMAIN products

\* The deletion of a product that a meal uses has been answered 200.
C35_Witness ==
    /\ response.request.op = "delete_product"
    /\ response.status = 200
    /\ \E k \in DOMAIN meal_ingredients :
          meal_ingredients[k].product_id = response.request.id

\* C36: every product has a delivery timestamp in every committed state.
C36_DeliveryDateAlwaysSet ==
    \A id \in DOMAIN products : products[id].delivery_date # NoDate

\* C37: no two products have the same name in any committed state, and an
\* update that renames the product it loaded (its body names it otherwise than
\* the loaded row) to the name of another product writes nothing: the products
\* and the ledger stay as they were.
C37_ProductNamesUnique ==
    /\ [](\A i, j \in DOMAIN products :
             i # j => products[i].name # products[j].name)
    /\ [][\A p \in Sessions :
             (/\ pc[p] = "update_product_commit" /\ pc'[p] = "idle"
              /\ req[p].body.name # session[p].row.name
              /\ \E k \in DOMAIN products \ {session[p].id} :
                    products[k].name = req[p].body.name)
             => UNCHANGED <<products, inventory_logs>>]_vars

\* An update that renames a product to the name of another product has been
\* turned down.
C37_Witness ==
    /\ response.request.op = "update_product"
    /\ response.status = 500
    /\ response.request.id \in DOMAIN products
    /\ products[response.request.id].name # response.request.body.name
    /\ \E k \in DOMAIN products \ {response.request.id} :
          products[k].name = response.request.body.name

\* C38: a serve_meal request of a user whose role is admin is answered 403 by
\* the step that receives it, and that step leaves every table as it was.
C38_AdminMayNotServe ==
    [][\A p \in Sessions :
          (Receives(p, "serve_meal") /\ users[Received(p).user] = "admin")
          => /\ response'.session = p
             /\ response'.status = 403
             /\ UNCHANGED db]_vars

\* C39: a serve_meal call that has started comes to its end, by its commit or
\* by an error, whatever servings and product updates run beside it.
C39_ServeMealTerminates ==
    \A p \in Sessions :
       (pc[p] \in {"serve_meal", "serve_meal_commit"}) ~> (pc[p] = "idle")

\* Two servings of meals that use the same product are under way, both past
\* their checks.
C39_Witness ==
    /\ \A p \in Sessions : pc[p] = "serve_meal_commit"
    /\ \E id \in DOMAIN products : \A p \in Sessions : id \in DOMAIN session[p].loaded
====
